---- MODULE Spec2Model ----
(***************************************************************************)
(* Model of the monitoring collector's alert evaluation engine             *)
(* (scripts/demo/check_alerts.py) together with the accepted path of the   *)
(* ingestion endpoint (scripts/app.py) that feeds it.                      *)
(*                                                                         *)
(* The relational tables keep their names: hosts, alert_types,             *)
(* host_alert_checks, incoming_data, alerts.  A table with an              *)
(* AUTO_INCREMENT key is a sequence whose index is the key.                *)
(***************************************************************************)
EXTENDS Integers, Sequences, FiniteSets, TLC

(***************************************************************************)
(* Bounds of the model.                                                    *)
(***************************************************************************)
MaxNow == 2
MaxSamples == 3
MaxAlerts == 3
MaxRows == 5
MaxIngest == 2

(***************************************************************************)
(* Program constants.                                                      *)
(***************************************************************************)
DefaultThresholdPct == 90
DefaultOfflineMinutes == 60
SecondsPerMinute == 60

HostIds == {1, 2}
CheckIds == {1, 2}
Runners == {1, 2}

(***************************************************************************)
(* JSON documents of the params_json columns.  The columns are of SQL type *)
(* JSON, so a stored document is always well-formed JSON; it is SQL NULL,  *)
(* an object, or a value that is not an object (here: a non-empty array).  *)
(* A value inside an object is a number, a string, or a nested object (n:  *)
(* the set of its keys, as a bit set).                                     *)
(***************************************************************************)
ParamKeys == {"threshold_pct", "offline_threshold_minutes"}

Absent == [ty |-> "absent", n |-> 0]
JNum(n) == [ty |-> "num", n |-> n]
JStr == [ty |-> "str", n |-> 0]
JNested(n) == [ty |-> "obj", n |-> n]

NoKeys == [k \in ParamKeys |-> Absent]
JNull == [kind |-> "null", map |-> NoKeys]
JArray == [kind |-> "array", map |-> NoKeys]
JObject(m) == [kind |-> "object", map |-> m]
Threshold(v) == JObject([NoKeys EXCEPT !["threshold_pct"] = v])

VARIABLES
  hosts,              \* hosts table: host_id -> [is_active, last_seen]
  alert_types,        \* alert_types table: check_id -> row
  host_alert_checks,  \* bindings: <<host_id, check_id>> -> row
  incoming_data,      \* samples, index = data_id
  alerts,             \* alerts, index = alert_id
  now,                \* wall clock, in seconds
  pc,                 \* per runner: position of main()
  hostq,              \* per runner: active hosts still to check, head = current
  todo,               \* per runner: checks of the current host not yet looped over
  cur,                \* per runner: locals of the check being evaluated
  results,            \* per runner: results dict of check_alerts_for_host
  printed,            \* per runner: results of the hosts main() has finished
  lastVerdict,        \* history: <<host, check>> -> last verdict a pass computed
  risingEdges,        \* history: <<host, check>> -> number of not-triggered -> triggered verdict changes
  demo,               \* history: progress of the demo scenario of demo_alerts.py
  request,            \* the last request POST /report handled
  response            \* the response to it

vars == <<hosts, alert_types, host_alert_checks, incoming_data, alerts, now,
          pc, hostq, todo, cur, results, printed,
          lastVerdict, risingEdges, demo, request, response>>

config == <<hosts, alert_types, host_alert_checks>>
history == <<lastVerdict, risingEdges, demo>>
runnerVars == <<pc, hostq, todo, cur, results, printed>>

(***************************************************************************)
(* Optional column values: <<>> is SQL NULL, <<v>> is the value v.         *)
(***************************************************************************)
None == <<>>
Some(v) == <<v>>
IsNull(o) == o = <<>>
Val(o) == o[1]

\* Sequences as sets, and the rows of a table as a set of keys.
Range(s) == {s[i] : i \in 1..Len(s)}
SetMax(S) == CHOOSE x \in S : \A y \in S : y <= x

(***************************************************************************)
(* The metric triples the demo agents send (cpu, mem, disk).               *)
(***************************************************************************)
Metrics(cpu, mem, disk) == [cpu_pct |-> Some(cpu), mem_pct |-> Some(mem), disk_pct |-> Some(disk)]
Reports == { Metrics(15, 30, 45), Metrics(15, 30, 92), Metrics(20, 50, 40) }

(***************************************************************************)
(* Messages of the predicates.  An alert's message is the sequence of the  *)
(* message parts concatenated into the column.                             *)
(***************************************************************************)
Msg(what, text, h, pct, thr) ==
  [what |-> what, text |-> text, host |-> h, pct |-> pct, threshold |-> thr]
ResolvedMark == Msg("", "RESOLVED", 0, 0, 0)

(***************************************************************************)
(* ORDER BY i.collected_at DESC LIMIT 1 over the host's samples: the rows  *)
(* a query may return.  SQL leaves the order of equal keys open, so every  *)
(* row with the greatest collected_at is a possible answer.                *)
(***************************************************************************)
SamplesOf(h) == {i \in 1..Len(incoming_data) : incoming_data[i].host_id = h}

\* Faulty variant: the row received last.
LatestSamples_received(h) ==
  {i \in SamplesOf(h) : \A j \in SamplesOf(h) : j <= i}

LatestSamples(h) ==
  {i \in SamplesOf(h) :
     \A j \in SamplesOf(h) : incoming_data[j].collected_at <= incoming_data[i].collected_at}

(***************************************************************************)
(* params.get(key, default) on the merged parameters.  The merged value is *)
(* a dict, or (a CheckKind default that is not an object and no override)  *)
(* a list, on which .get raises AttributeError.                            *)
(***************************************************************************)
GetRaises(params) == params.kind # "object"
Get(params, key, default) ==
  IF params.map[key].ty = "absent" THEN JNum(default) ELSE params.map[key]

Raise == [exc |-> TRUE, triggered |-> FALSE, message |-> Msg("", "exception", 0, 0, 0)]
Verdict(t, m) == [exc |-> FALSE, triggered |-> t, message |-> m]

(***************************************************************************)
(* The three resource checks share one shape: read the latest sample's     *)
(* percentage, no data -> not triggered, else compare with threshold_pct.  *)
(* Comparing a float with a non-number raises TypeError.                   *)
(***************************************************************************)
\* Faulty variant: a value equal to the threshold does not trigger.
resource_check_gt(pct, thr) == pct > thr

resource_check_ge(pct, thr) == pct >= thr

resource_check(h, params, field, what) ==
  IF GetRaises(params) THEN {Raise}
  ELSE LET threshold_pct == Get(params, "threshold_pct", DefaultThresholdPct)
           OnRow(i) ==
             LET v == incoming_data[i][field] IN
             IF IsNull(v) THEN Verdict(FALSE, Msg(what, "no data", 0, 0, 0))
             ELSE IF threshold_pct.ty # "num" THEN Raise
             ELSE IF resource_check_ge(Val(v), threshold_pct.n)
                  THEN Verdict(TRUE, Msg(what, "usage critical", h, Val(v), threshold_pct.n))
                  ELSE Verdict(FALSE, Msg(what, "usage normal", h, Val(v), 0))
       IN IF SamplesOf(h) = {}
          THEN {Verdict(FALSE, Msg(what, "no data", 0, 0, 0))}
          ELSE {OnRow(i) : i \in LatestSamples(h)}

check_disk_space(h, params) == resource_check(h, params, "disk_pct", "disk")
check_memory_usage(h, params) == resource_check(h, params, "mem_pct", "memory")
check_cpu_usage(h, params) == resource_check(h, params, "cpu_pct", "CPU")

\* Faulty variant: the time of the last accepted report (hosts.last_seen)
\* is used instead of the samples' collected_at.
check_host_online_last_seen(h, params) ==
  IF GetRaises(params) THEN {Raise}
  ELSE LET threshold_minutes == Get(params, "offline_threshold_minutes", DefaultOfflineMinutes) IN
       IF hosts[h].last_seen = None
       THEN {Verdict(TRUE, Msg("host", "never reported", 0, 0, 0))}
       ELSE IF threshold_minutes.ty # "num" THEN {Raise}
       ELSE LET last_seen == Val(hosts[h].last_seen)
                threshold == now - threshold_minutes.n * SecondsPerMinute
            IN IF last_seen < threshold
               THEN {Verdict(TRUE, Msg("host", "offline", h, (now - last_seen) \div SecondsPerMinute, threshold_minutes.n))}
               ELSE {Verdict(FALSE, Msg("host", "online", h, 0, 0))}

check_host_online(h, params) ==
  IF GetRaises(params) THEN {Raise}
  ELSE LET threshold_minutes == Get(params, "offline_threshold_minutes", DefaultOfflineMinutes) IN
       IF SamplesOf(h) = {}
       THEN {Verdict(TRUE, Msg("host", "never reported", 0, 0, 0))}
       ELSE IF threshold_minutes.ty # "num" THEN {Raise}
       ELSE LET last_seen == SetMax({incoming_data[i].collected_at : i \in SamplesOf(h)})
                threshold == now - threshold_minutes.n * SecondsPerMinute
            IN IF last_seen < threshold
               THEN {Verdict(TRUE, Msg("host", "offline", h, (now - last_seen) \div SecondsPerMinute, threshold_minutes.n))}
               ELSE {Verdict(FALSE, Msg("host", "online", h, 0, 0))}

ALERT_FUNCTIONS ==
  {"check_host_online", "check_disk_space", "check_memory_usage", "check_cpu_usage"}

\* check_function(conn, host_id, params): the outcomes the call can have.
CallCheck(function_name, h, params) ==
  CASE function_name = "check_host_online" -> check_host_online(h, params)
    [] function_name = "check_disk_space" -> check_disk_space(h, params)
    [] function_name = "check_memory_usage" -> check_memory_usage(h, params)
    [] function_name = "check_cpu_usage" -> check_cpu_usage(h, params)

(***************************************************************************)
(* Merge of the CheckKind's defaults with the binding's override.          *)
(*   params = json.loads(default_params) if default_params else {}         *)
(*   if params_json: params.update(json.loads(params_json))                *)
(* update() raises when params is a list (AttributeError) or when the      *)
(* override is not a mapping (TypeError / ValueError).                     *)
(***************************************************************************)
MergeRaises(default_params, params_json) ==
  /\ params_json.kind # "null"
  /\ \/ default_params.kind = "array"
     \/ params_json.kind = "array"

\* Faulty variant: a key of the defaults is not overridden.
MergeParams_setdefault(default_params, params_json) ==
  LET base == IF default_params.kind = "null" THEN JObject(NoKeys) ELSE default_params IN
  IF params_json.kind = "null" THEN base
  ELSE JObject([k \in ParamKeys |->
                  IF base.map[k].ty # "absent" THEN base.map[k] ELSE params_json.map[k]])

MergeParams(default_params, params_json) ==
  LET base == IF default_params.kind = "null" THEN JObject(NoKeys) ELSE default_params IN
  IF params_json.kind = "null" THEN base
  ELSE JObject([k \in ParamKeys |->
                  IF params_json.map[k].ty # "absent" THEN params_json.map[k] ELSE base.map[k]])

(***************************************************************************)
(* Queries and updates of the alerts table.                                *)
(***************************************************************************)
AlertsOf(h, c) == {a \in 1..Len(alerts) : alerts[a].host_id = h /\ alerts[a].check_id = c}
OpenAlertsOf(h, c) == {a \in AlertsOf(h, c) : alerts[a].status = "open"}
Newest(S) == {a \in S : \A b \in S : alerts[b].triggered_at <= alerts[a].triggered_at}

\* Faulty variant of resolve_alert: the UPDATE matches no row.
resolve_alert_no_row(h, c, message) == {alerts}

\* get_active_hosts: WHERE is_active = 1 ORDER BY host_id
RECURSIVE Ascending(_)
Ascending(S) ==
  IF S = {} THEN <<>>
  ELSE LET least == CHOOSE x \in S : \A y \in S : x <= y
       IN <<least>> \o Ascending(S \ {least})
get_active_hosts == Ascending({h \in HostIds : hosts[h].is_active})

\* Faulty variant: the enabled flags are not looked at.
get_host_alert_checks_bound(h) == {c \in CheckIds : host_alert_checks[<<h, c>>].bound}

\* get_host_alert_checks: the check ids bound to h, enabled on both sides
get_host_alert_checks(h) ==
  {c \in CheckIds : /\ host_alert_checks[<<h, c>>].bound
                    /\ host_alert_checks[<<h, c>>].enabled
                    /\ alert_types[c].enabled}

\* get_last_alert_state: ORDER BY triggered_at DESC LIMIT 1; None when no row.
get_last_alert_state(h, c) ==
  IF AlertsOf(h, c) = {} THEN {"none"}
  ELSE {alerts[a].status : a \in Newest(AlertsOf(h, c))}

\* create_alert: INSERT ... NOW(), 'open'
create_alert(h, c, severity, message) ==
  Append(alerts, [host_id |-> h, check_id |-> c, triggered_at |-> now,
                  severity |-> severity, message |-> <<message>>, status |-> "open"])

\* Faulty variant: the UPDATE does not restrict host_id.
resolve_alert_any_host(h, c, message) ==
  LET open == {a \in 1..Len(alerts) : alerts[a].check_id = c /\ alerts[a].status = "open"} IN
  IF open = {} THEN {alerts}
  ELSE {[alerts EXCEPT ![a].status = "resolved",
                       ![a].message = @ \o <<ResolvedMark, message>>]
          : a \in Newest(open)}

\* resolve_alert: UPDATE ... WHERE status = 'open' ORDER BY triggered_at DESC LIMIT 1
\* the tables the statement can leave
resolve_alert(h, c, message) ==
  IF OpenAlertsOf(h, c) = {} THEN {alerts}
  ELSE {[alerts EXCEPT ![a].status = "resolved",
                       ![a].message = @ \o <<ResolvedMark, message>>]
          : a \in Newest(OpenAlertsOf(h, c))}

(***************************************************************************)
(* Configuration: the rows of hosts, alert_types and host_alert_checks.    *)
(* The evaluation engine and the ingestion endpoint never change them      *)
(* (but for hosts.last_seen).  The seeded check kinds are those of         *)
(* setup_database.py: Disk Space (L2, threshold_pct 90) and Host Online    *)
(* (L1, offline_threshold_minutes 60).                                     *)
(***************************************************************************)
SeedHosts == [h \in HostIds |-> [is_active |-> TRUE, last_seen |-> None]]

SeedAlertTypes ==
  [c \in CheckIds |->
     IF c = 1
     THEN [function_name |-> "check_disk_space", params_json |-> Threshold(JNum(DefaultThresholdPct)),
           severity |-> "L2", enabled |-> TRUE]
     ELSE [function_name |-> "check_host_online",
           params_json |-> JObject([NoKeys EXCEPT !["offline_threshold_minutes"] = JNum(DefaultOfflineMinutes)]),
           severity |-> "L1", enabled |-> TRUE]]

SeedBindings ==
  [b \in HostIds \X CheckIds |-> [bound |-> TRUE, enabled |-> TRUE, params_json |-> JNull]]

Seed == [hosts |-> SeedHosts, alert_types |-> SeedAlertTypes, host_alert_checks |-> SeedBindings]

\* Well-formed configurations: one host with the disk check, one host with
\* both checks, two hosts with one check each.
OneCheck == [Seed EXCEPT !.hosts[2].is_active = FALSE, !.host_alert_checks[<<1, 2>>].bound = FALSE]
TwoChecks == [Seed EXCEPT !.hosts[2].is_active = FALSE]
TwoHosts == [Seed EXCEPT !.host_alert_checks[<<1, 2>>].bound = FALSE,
                         !.host_alert_checks[<<2, 1>>].bound = FALSE]
Configurations == {OneCheck, TwoChecks, TwoHosts}

\* Configurations in which every pair is bound but some are switched off:
\* host 2 inactive and host 1's binding to check 2 disabled; host 2 inactive
\* and check kind 2 disabled; check kind 2 disabled and host 2's binding to
\* check 1 disabled (host 2 is active and has no check to run).
Selections ==
  {[Seed EXCEPT !.hosts[2].is_active = FALSE, !.host_alert_checks[<<1, 2>>].enabled = FALSE],
   [Seed EXCEPT !.hosts[2].is_active = FALSE, !.alert_types[2].enabled = FALSE],
   [Seed EXCEPT !.alert_types[2].enabled = FALSE, !.host_alert_checks[<<2, 1>>].enabled = FALSE]}

\* cfg with the binding's params_json set to the document j.
WithOverride(cfg, binding, j) ==
  [hosts |-> cfg.hosts, alert_types |-> cfg.alert_types,
   host_alert_checks |->
     [k \in HostIds \X CheckIds |->
        IF k = binding
        THEN [bound |-> cfg.host_alert_checks[k].bound, enabled |-> cfg.host_alert_checks[k].enabled,
              params_json |-> j]
        ELSE cfg.host_alert_checks[k]]]

\* The same with one defect: a function name that is not in ALERT_FUNCTIONS,
\* or a parameter document (of the disk check kind, or of host 1's binding
\* to it) that is an array, or whose threshold is a string.
Misconfigurations ==
  LET bases == {TwoChecks, TwoHosts}
      docs == {JArray, Threshold(JStr)}
  IN {[b EXCEPT !.alert_types[c].function_name = "check_network"] : b \in bases, c \in CheckIds}
     \cup {[b EXCEPT !.alert_types[1].params_json = j] : b \in bases, j \in docs}
     \cup {WithOverride(b, <<1, 1>>, j) : b \in bases, j \in docs}

(***************************************************************************)
(* POST /report (app.py).  A request is its Authorization header and its   *)
(* body.                                                                   *)
(*   json          the body parses as JSON (request.get_json succeeds)     *)
(*   auth          <<>>: no header with the configured prefix;             *)
(*                 <<k>>: "Bearer k" (k may be empty)                      *)
(*   host_key      the body's host_key: <<>> absent, <<k>> declared        *)
(*   cpu_pct, mem_pct, disk_pct   <<>> absent, <<v>> given                 *)
(*   collected_at  absent, JSON null, or a date-time                       *)
(*   unknown       names of body fields ReportPayload does not declare     *)
(*   extra         the body's "extra": <<>> absent, <<names>> an object    *)
(*                 with these keys                                         *)
(* A date-time is its wall-clock reading and its UTC offset (<<>> when the *)
(* text has none: a naive datetime); it names the instant wall - offset.   *)
(***************************************************************************)
HostKeyOf(h) == IF h = 1 THEN "key-1" ELSE "key-2"
UnregisteredKey == "key-9"
Keys == {HostKeyOf(h) : h \in HostIds} \cup {UnregisteredKey, ""}

DateTime(wall, off) == [wall |-> wall, off |-> off]
Omitted == [given |-> "absent", dt |-> DateTime(0, None)]
JsonNull == [given |-> "null", dt |-> DateTime(0, None)]
Given(dt) == [given |-> "value", dt |-> dt]

Request(auth, host_key, m, collected_at, unknown, extra) ==
  [cpu_pct |-> m.cpu_pct, mem_pct |-> m.mem_pct, disk_pct |-> m.disk_pct,
   collected_at |-> collected_at, auth |-> auth, host_key |-> host_key,
   unknown |-> unknown, extra |-> extra, json |-> TRUE]

NoRequest == Request(None, None, [cpu_pct |-> None, mem_pct |-> None, disk_pct |-> None], Omitted, {}, None)

\* A request whose body is not JSON: it has no fields.
Garbled(auth) == [NoRequest EXCEPT !.json = FALSE, !.auth = auth]

\* A response: its HTTP status, and "ok", "error" and "data_id" of its JSON body.
Response(ok, status, error, data_id) ==
  [ok |-> ok, status |-> status, error |-> error, data_id |-> data_id]
NoResponse == Response(FALSE, 0, "", None)

NoCheck ==
  [host_id |-> 0, check_id |-> 0, kind |-> "none", alert_triggered |-> FALSE, message |-> ResolvedMark,
   last_state |-> "none", op |-> "none", severity |-> "L1", params |-> JNull]
NoResults ==
  [host_id |-> 0, checks_run |-> 0, alerts_triggered |-> 0, alerts_resolved |-> 0, details |-> <<>>]

InitWith(cfgs, stores) ==
  /\ \E cfg \in cfgs :
       /\ hosts = cfg.hosts
       /\ alert_types = cfg.alert_types
       /\ host_alert_checks = cfg.host_alert_checks
  /\ incoming_data \in stores
  /\ alerts = <<>>
  /\ now = 0
  /\ pc = [p \in Runners |-> "idle"]
  /\ hostq = [p \in Runners |-> <<>>]
  /\ todo = [p \in Runners |-> {}]
  /\ cur = [p \in Runners |-> NoCheck]
  /\ results = [p \in Runners |-> NoResults]
  /\ printed = [p \in Runners |-> <<>>]
  /\ lastVerdict = [b \in HostIds \X CheckIds |-> FALSE]
  /\ risingEdges = [b \in HostIds \X CheckIds |-> 0]
  /\ demo = 0
  /\ request = NoRequest
  /\ response = NoResponse

Init == InitWith(Configurations, {<<>>})

(***************************************************************************)
(* demo_alerts.py, followed for one host (storage-server-04): send normal  *)
(* metrics, run the checker, send critical metrics, run the checker, send  *)
(* normal metrics, run the checker.  demo counts the steps done; DemoOff   *)
(* means the history is not (or no longer) that of the demo.               *)
(*   0 start          1 sent disk 45   2 checker writing   3 checker ran   *)
(*   4 sent disk 92   5 checker writing   6 checker ran                    *)
(*   7 sent disk 40   8 checker writing   9 checker ran                    *)
(***************************************************************************)
DemoHost == 1
DemoCheck == 1
DemoOff == 10
DemoNormal == Metrics(15, 30, 45)
DemoAlert == Metrics(15, 30, 92)
DemoBack == Metrics(20, 50, 40)

\* The demo stamps each report with the time of sending and sleeps between
\* the steps: the report is newer than every sample the host has.
Fresh(h, t) == \A i \in SamplesOf(h) : incoming_data[i].collected_at < t

DemoAfterReport(h, m, t) ==
  IF h # DemoHost \/ demo = DemoOff THEN demo
  ELSE IF demo = 0
       THEN (IF m = DemoNormal /\ Fresh(h, t) /\ AlertsOf(DemoHost, DemoCheck) = {} THEN 1 ELSE 0)
  ELSE IF demo = 3 /\ m = DemoAlert /\ Fresh(h, t) THEN 4
  ELSE IF demo = 6 /\ m = DemoBack /\ Fresh(h, t) THEN 7
  ELSE DemoOff

\* The checker has computed a verdict for the demo host's disk check;
\* writes is TRUE when a create_alert or resolve_alert is still to come.
DemoAfterVerdict(h, c, writes) ==
  IF h # DemoHost \/ c # DemoCheck \/ demo \in {0, DemoOff} THEN demo
  ELSE IF demo \in {1, 4, 7} THEN (IF writes THEN demo + 1 ELSE demo + 2)
  ELSE DemoOff

DemoAfterWrite(h, c) ==
  IF h # DemoHost \/ c # DemoCheck \/ demo = DemoOff THEN demo
  ELSE IF demo \in {2, 5, 8} THEN demo + 1
  ELSE IF demo = 0 THEN 0
  ELSE DemoOff

DemoAfterAcknowledge(h, c) ==
  IF h # DemoHost \/ c # DemoCheck \/ demo \in {0, DemoOff} THEN demo ELSE DemoOff

(***************************************************************************)
(* POST /report: the handler.                                              *)
(***************************************************************************)
\* Python truth of an optional string: None and "" are false.
Truthy(o) == o # None /\ Val(o) # ""

\* get_host_key_from_request: the header's key, else the body's host_key
\* (get_json(silent=True) or {}: a body that is not JSON has none).
get_host_key_from_request(req) ==
  IF req.auth # None THEN req.auth
  ELSE IF req.json THEN req.host_key
  ELSE None

\* Faulty variant: the bounds are exclusive.
pct_field_strict(v) == IsNull(v) \/ (Val(v) > 0 /\ Val(v) < 100)

\* Field(ge=0, le=100) on an Optional[float]
pct_field(v) == IsNull(v) \/ (Val(v) >= 0 /\ Val(v) <= 100)

\* datetime.now(timezone.utc)
utcnow == DateTime(now, Some(0))

\* The "before" validator of collected_at: v or datetime.now(timezone.utc).
\* pydantic does not run a field's validators on its default, so a body
\* without the field leaves collected_at None.
default_collected_at(v) ==
  CASE v.given = "absent" -> None
    [] v.given = "null" -> Some(utcnow)
    [] OTHER -> Some(v.dt)

\* ReportPayload.model_validate: the payload, or <<>> on a ValidationError.
\* Fields the model does not declare are ignored.
model_validate(req) ==
  IF pct_field(req.cpu_pct) /\ pct_field(req.mem_pct) /\ pct_field(req.disk_pct)
  THEN Some([host_key |-> req.host_key,
             collected_at |-> default_collected_at(req.collected_at),
             cpu_pct |-> req.cpu_pct, mem_pct |-> req.mem_pct, disk_pct |-> req.disk_pct,
             extra |-> req.extra])
  ELSE None

\* payload.host_key and payload.host_key != host_key
host_key_mismatch(payload, host_key) ==
  Truthy(payload.host_key) /\ payload.host_key # host_key

\* Faulty variant: is_active is not looked at.
get_host_id_by_key_any(host_key) ==
  LET S == {h \in HostIds : HostKeyOf(h) = Val(host_key)}
  IN IF S = {} THEN None ELSE Some(CHOOSE h \in S : TRUE)

\* SELECT host_id FROM hosts WHERE host_key=%s AND is_active=1
get_host_id_by_key(host_key) ==
  LET S == {h \in HostIds : HostKeyOf(h) = Val(host_key) /\ hosts[h].is_active}
  IN IF S = {} THEN None ELSE Some(CHOOSE h \in S : TRUE)

\* dt.replace(tzinfo=None): the wall-clock reading, the offset dropped.
replace_tzinfo_none(dt) == dt.wall

\* Faulty variant: the UPDATE has no WHERE clause.
update_last_seen_all(host_id) == [h \in HostIds |-> [hosts[h] EXCEPT !.last_seen = Some(now)]]

\* update_last_seen
update_last_seen(host_id) == [hosts EXCEPT ![host_id].last_seen = Some(now)]

\* Faulty variant: a row equal to an existing one is not inserted again.
insert_incoming_data_dedup(host_id, p) ==
  LET row == [host_id |-> host_id, collected_at |-> Val(p.collected_at).wall,
              cpu_pct |-> p.cpu_pct, mem_pct |-> p.mem_pct, disk_pct |-> p.disk_pct,
              extra |-> p.extra]
  IN IF \E i \in 1..Len(incoming_data) : incoming_data[i] = row
     THEN incoming_data
     ELSE Append(incoming_data, row)

\* insert_incoming_data: the table after the INSERT.  collected_at of the
\* payload is not None here (the column is NOT NULL, see report_outcome).
insert_incoming_data(host_id, p) ==
  Append(incoming_data,
         [host_id |-> host_id, collected_at |-> replace_tzinfo_none(Val(p.collected_at)),
          cpu_pct |-> p.cpu_pct, mem_pct |-> p.mem_pct, disk_pct |-> p.disk_pct,
          extra |-> p.extra])

(***************************************************************************)
(* report(): the response and the tables it leaves.  fault is what the     *)
(* database does to this request: "none", or the statement that fails      *)
(* ("connect", "insert", "update").  The connection is autocommit, so a    *)
(* row inserted before a failure stays.                                    *)
(***************************************************************************)
DbFaults == {"none", "connect", "insert", "update"}

Outcome(resp, data, hs) == [response |-> resp, incoming_data |-> data, hosts |-> hs]
\* Faulty variant: a failure body without its error code.
Reject_plain(status, error) == Outcome(Response(FALSE, status, "", None), incoming_data, hosts)

Reject(status, error) == Outcome(Response(FALSE, status, error, None), incoming_data, hosts)

\* Faulty variant: the host is resolved before the body is looked at.
report_outcome_resolve_first(req, fault) ==
  LET host_key == get_host_key_from_request(req)
      validated == model_validate(req)
  IN IF ~Truthy(host_key) THEN Reject(401, "missing_host_key")
     ELSE IF fault = "connect" THEN Reject(500, "server_error")
     ELSE IF get_host_id_by_key(host_key) = None THEN Reject(403, "invalid_host_key")
     ELSE IF ~req.json THEN Reject(400, "invalid_json")
     ELSE IF validated = None THEN Reject(400, "validation_error")
     ELSE IF host_key_mismatch(Val(validated), host_key) THEN Reject(401, "host_key_mismatch")
     ELSE IF fault = "insert" \/ Val(validated).collected_at = None
          THEN Reject(500, "server_error")
     ELSE LET host_id == Val(get_host_id_by_key(host_key))
              data == insert_incoming_data(host_id, Val(validated))
          IN IF fault = "update"
             THEN Outcome(Response(FALSE, 500, "server_error", None), data, hosts)
             ELSE Outcome(Response(TRUE, 200, "", Some(Len(data))), data, update_last_seen(host_id))

report_outcome(req, fault) ==
  LET host_key == get_host_key_from_request(req)
      validated == model_validate(req)
  IN IF ~Truthy(host_key) THEN Reject(401, "missing_host_key")
     ELSE IF ~req.json THEN Reject(400, "invalid_json")
     ELSE IF validated = None THEN Reject(400, "validation_error")
     ELSE IF host_key_mismatch(Val(validated), host_key) THEN Reject(401, "host_key_mismatch")
     ELSE IF fault = "connect" THEN Reject(500, "server_error")
     ELSE IF get_host_id_by_key(host_key) = None THEN Reject(403, "invalid_host_key")
     ELSE IF fault = "insert" \/ Val(validated).collected_at = None
          THEN Reject(500, "server_error")
     ELSE LET host_id == Val(get_host_id_by_key(host_key))
              data == insert_incoming_data(host_id, Val(validated))
          IN IF fault = "update"
             THEN Outcome(Response(FALSE, 500, "server_error", None), data, hosts)
             ELSE Outcome(Response(TRUE, 200, "", Some(Len(data))), data, update_last_seen(host_id))

Handle(req, fault) ==
  LET o == report_outcome(req, fault) IN
  /\ incoming_data' = o.incoming_data
  /\ hosts' = o.hosts
  /\ request' = req
  /\ response' = o.response

\* The requests of the agents and of the demo: the host's key as bearer
\* token, the metrics, collected_at = the (naive) time of sending.
ClientRequest(h, m) ==
  Request(Some(HostKeyOf(h)), None, m, Given(DateTime(now, None)), {}, None)

send_metrics(h, m) ==
  /\ hosts[h].is_active
  /\ Len(incoming_data) < MaxSamples
  /\ Len(incoming_data) + Len(alerts) < MaxRows
  /\ Handle(ClientRequest(h, m), "none")
  /\ demo' = DemoAfterReport(h, m, now)
  /\ UNCHANGED <<alert_types, host_alert_checks, alerts, now, runnerVars, lastVerdict, risingEdges>>

\* Any request, any database fault.
report(req, fault) ==
  /\ report_outcome(req, fault).incoming_data # incoming_data => Len(incoming_data) < MaxIngest
  /\ Handle(req, fault)
  /\ UNCHANGED <<alert_types, host_alert_checks, alerts, now, runnerVars, history>>

(***************************************************************************)
(* Manual acknowledgement of an open alert (alerts.status, an operator's   *)
(* UPDATE; no code of the engine does it).                                 *)
(***************************************************************************)
acknowledge(a) ==
  /\ a \in 1..Len(alerts)
  /\ alerts[a].status = "open"
  /\ alerts' = [alerts EXCEPT ![a].status = "acknowledged"]
  /\ demo' = DemoAfterAcknowledge(alerts[a].host_id, alerts[a].check_id)
  /\ UNCHANGED <<config, incoming_data, now, runnerVars, lastVerdict, risingEdges, request, response>>

\* Time passes: NOW() has a resolution of one second.
Tick ==
  /\ now < MaxNow
  /\ now' = now + 1
  /\ UNCHANGED <<config, incoming_data, alerts, runnerVars, history, request, response>>

(***************************************************************************)
(* check_alerts.py: main() and check_alerts_for_host().                    *)
(*                                                                         *)
(* pc:  "idle"   no pass has run                                           *)
(*      "loop"   in check_alerts_for_host, at the head of "for check"      *)
(*      "write"  a verdict and the last state are read; create_alert or    *)
(*               resolve_alert is the next statement                       *)
(*      "done"   main() returned                                           *)
(*      "failed" an exception reached main()'s except clause               *)
(***************************************************************************)
Running(p) == pc[p] \in {"loop", "write"}

Detail(c, tag) == [check_id |-> c, tag |-> tag]
FreshResults(h) == [NoResults EXCEPT !.host_id = h]
AddDetail(res, c, tag) == [res EXCEPT !.details = Append(@, Detail(c, tag))]

\* main()'s "for host in hosts", from the host at the head of hq on, up to
\* the first host that has checks; a host without checks returns at once.
RECURSIVE Enter(_, _)
Enter(hq, pr) ==
  IF hq = <<>>
  THEN [pc |-> "done", hostq |-> <<>>, todo |-> {}, results |-> NoResults, printed |-> pr]
  ELSE IF get_host_alert_checks(Head(hq)) = {}
       THEN Enter(Tail(hq), Append(pr, AddDetail(FreshResults(Head(hq)), 0, "No alert checks configured")))
       ELSE [pc |-> "loop", hostq |-> hq, todo |-> get_host_alert_checks(Head(hq)),
             results |-> FreshResults(Head(hq)), printed |-> pr]

\* The loop body for check c is over, with res the results dict so far.
Continue(p, c, res) ==
  IF todo[p] \ {c} # {}
  THEN [pc |-> "loop", hostq |-> hostq[p], todo |-> todo[p] \ {c},
        results |-> res, printed |-> printed[p]]
  ELSE Enter(Tail(hostq[p]), Append(printed[p], res))

\* An exception leaves check_alerts_for_host: main() prints it and ends.
Abort(p) ==
  [pc |-> "failed", hostq |-> <<>>, todo |-> {}, results |-> NoResults, printed |-> printed[p]]

Goto(p, st, c) ==
  /\ pc' = [pc EXCEPT ![p] = st.pc]
  /\ hostq' = [hostq EXCEPT ![p] = st.hostq]
  /\ todo' = [todo EXCEPT ![p] = st.todo]
  /\ results' = [results EXCEPT ![p] = st.results]
  /\ printed' = [printed EXCEPT ![p] = st.printed]
  /\ cur' = [cur EXCEPT ![p] = c]

main_start(p) ==
  /\ ~Running(p)
  /\ Goto(p, Enter(get_active_hosts, <<>>), NoCheck)
  /\ UNCHANGED <<config, incoming_data, alerts, now, history, request, response>>

(***************************************************************************)
(* One iteration of "for check in checks" up to the statement that writes: *)
(* merge the parameters, look the function up, call it, read the last      *)
(* state, choose the branch.                                               *)
(***************************************************************************)
\* Faulty variants of the branch choice: a new alert only for a pair that
\* never had one; a new alert on every triggered poll.
state_change_first_only(alert_triggered, last_state) ==
  IF alert_triggered
  THEN (IF last_state = "none" THEN "create" ELSE "ongoing")
  ELSE (IF last_state = "open" THEN "resolve" ELSE "ok")

state_change_every_poll(alert_triggered, last_state) ==
  IF alert_triggered THEN "create"
  ELSE (IF last_state = "open" THEN "resolve" ELSE "ok")

state_change(alert_triggered, last_state) ==
  IF alert_triggered
  THEN (IF last_state # "open" THEN "create" ELSE "ongoing")
  ELSE (IF last_state = "open" THEN "resolve" ELSE "ok")

\* The locals of the loop body after the branch is chosen.  kind tells how
\* far the body got: "raise" (the merge raised), "unknown" (no such function),
\* "error" (the function raised, caught), "verdict".  params is the merged
\* parameter map (unset when the merge raised).
Locals(h, c, kind, alert_triggered, message, last_state) ==
  [host_id |-> h, check_id |-> c, kind |-> kind, alert_triggered |-> alert_triggered, message |-> message,
   last_state |-> last_state,
   op |-> IF kind = "verdict" THEN state_change(alert_triggered, last_state) ELSE "none",
   severity |-> alert_types[c].severity,
   params |-> IF kind = "raise" THEN JNull
              ELSE MergeParams(alert_types[c].params_json, host_alert_checks[<<h, c>>].params_json)]

Evaluations(h, c) ==
  LET at == alert_types[c]
      b == host_alert_checks[<<h, c>>]
  IN IF MergeRaises(at.params_json, b.params_json)
     THEN {Locals(h, c, "raise", FALSE, ResolvedMark, "none")}
     ELSE IF at.function_name \notin ALERT_FUNCTIONS
     THEN {Locals(h, c, "unknown", FALSE, ResolvedMark, "none")}
     ELSE LET params == MergeParams(at.params_json, b.params_json) IN
          {IF o.exc THEN Locals(h, c, "error", FALSE, ResolvedMark, "none")
           ELSE Locals(h, c, "verdict", o.triggered, o.message, ls)
             : o \in CallCheck(at.function_name, h, params), ls \in get_last_alert_state(h, c)}

\* Faulty variant: the check is counted before its function is looked up.
unknown_function_counted(p, c) ==
  Continue(p, c, AddDetail([results[p] EXCEPT !.checks_run = @ + 1], c, "Unknown function"))

\* "if not check_func": a detail entry, then continue.
unknown_function(p, c) == Continue(p, c, AddDetail(results[p], c, "Unknown function"))

AfterEvaluation(p, c, e) ==
  LET counted == [results[p] EXCEPT !.checks_run = @ + 1] IN
  CASE e.kind = "raise" -> Abort(p)
    [] e.kind = "unknown" -> unknown_function(p, c)
    [] e.kind = "error" -> Continue(p, c, AddDetail(counted, c, "ERROR"))
    [] e.kind = "verdict" /\ e.op = "ongoing" -> Continue(p, c, AddDetail(counted, c, "ONGOING"))
    [] e.kind = "verdict" /\ e.op = "ok" -> Continue(p, c, AddDetail(counted, c, "OK"))
    [] OTHER -> [pc |-> "write", hostq |-> hostq[p], todo |-> todo[p],
                 results |-> counted, printed |-> printed[p]]

check_step(p) ==
  /\ pc[p] = "loop"
  /\ \E c \in todo[p] :
       \E e \in Evaluations(Head(hostq[p]), c) :
         LET h == Head(hostq[p]) IN
         /\ Goto(p, AfterEvaluation(p, c, e), e)
         /\ lastVerdict' = IF e.kind = "verdict"
                           THEN [lastVerdict EXCEPT ![<<h, c>>] = e.alert_triggered]
                           ELSE lastVerdict
         /\ risingEdges' = IF e.kind = "verdict" /\ e.alert_triggered /\ ~lastVerdict[<<h, c>>]
                           THEN [risingEdges EXCEPT ![<<h, c>>] = IF @ > MaxAlerts THEN @ ELSE @ + 1]
                           ELSE risingEdges
         /\ demo' = IF e.kind = "verdict"
                    THEN DemoAfterVerdict(h, c, e.op \in {"create", "resolve"})
                    ELSE demo
  /\ UNCHANGED <<config, incoming_data, alerts, now, request, response>>

(***************************************************************************)
(* The writing statement of the chosen branch and the rest of the body.    *)
(***************************************************************************)
write_step(p) ==
  /\ pc[p] = "write"
  /\ cur[p].op = "create" =>
       Len(alerts) < MaxAlerts /\ Len(incoming_data) + Len(alerts) < MaxRows
  /\ LET h == Head(hostq[p])
         c == cur[p].check_id
     IN /\ IF cur[p].op = "create"
           THEN /\ alerts' = create_alert(h, c, cur[p].severity, cur[p].message)
                /\ Goto(p, Continue(p, c, AddDetail([results[p] EXCEPT !.alerts_triggered = @ + 1], c, "NEW ALERT")), cur[p])
           ELSE /\ alerts' \in resolve_alert(h, c, cur[p].message)
                /\ Goto(p, Continue(p, c, AddDetail([results[p] EXCEPT !.alerts_resolved = @ + 1], c, "RESOLVED")), cur[p])
        /\ demo' = DemoAfterWrite(h, c)
  /\ UNCHANGED <<config, incoming_data, now, lastVerdict, risingEdges, request, response>>

(***************************************************************************)
(* An operator switches a host or a binding off between two passes         *)
(* (hosts.is_active, host_alert_checks.enabled; no code of the engine or   *)
(* of the endpoint writes them).                                           *)
(***************************************************************************)
deactivate_host(h) ==
  /\ \A p \in Runners : ~Running(p)
  /\ hosts[h].is_active
  /\ hosts' = [hosts EXCEPT ![h].is_active = FALSE]
  /\ UNCHANGED <<alert_types, host_alert_checks, incoming_data, alerts, now, runnerVars, history,
                 request, response>>

disable_binding(h, c) ==
  /\ \A p \in Runners : ~Running(p)
  /\ host_alert_checks[<<h, c>>].bound
  /\ host_alert_checks[<<h, c>>].enabled
  /\ host_alert_checks' = [host_alert_checks EXCEPT ![<<h, c>>].enabled = FALSE]
  /\ UNCHANGED <<hosts, alert_types, incoming_data, alerts, now, runnerVars, history,
                 request, response>>

(***************************************************************************)
(* Specifications.  Spec: one checker at a time (passes do not overlap),   *)
(* with reports, acknowledgements and the clock in between.                *)
(* SpecOverlap: a second checker may start while the first is running;     *)
(* reports arrive in between.  SpecFaults: defective configurations.       *)
(* SpecIngest: the ingestion endpoint alone.  SpecSelect: configurations   *)
(* with rows switched off.  SpecParams: default and override parameter     *)
(* documents.  SpecOnline: the host-online check with reports of any       *)
(* collected_at.  SpecAdmin: rows switched off between passes.             *)
(***************************************************************************)
Environment ==
  \/ \E h \in HostIds, m \in Reports : send_metrics(h, m)
  \/ \E a \in 1..Len(alerts) : acknowledge(a)
  \/ Tick

Next ==
  \/ Environment
  \/ main_start(1)
  \/ check_step(1)
  \/ write_step(1)

Spec == Init /\ [][Next]_vars

NextOverlap ==
  \/ \E h \in HostIds, m \in Reports : send_metrics(h, m)
  \/ Tick
  \/ \E p \in Runners : main_start(p)
  \/ \E p \in Runners : check_step(p)
  \/ \E p \in Runners : write_step(p)

InitOverlap == InitWith({OneCheck}, {<<>>})

SpecOverlap == InitOverlap /\ [][NextOverlap]_vars

\* SpecFaults: one checker at a time over a configuration with a defect;
\* the hosts report critical metrics.
NextFaults ==
  \/ \E h \in HostIds : send_metrics(h, DemoAlert)
  \/ \E a \in 1..Len(alerts) : acknowledge(a)
  \/ Tick
  \/ main_start(1)
  \/ check_step(1)
  \/ write_step(1)

InitFaults == InitWith(Misconfigurations, {<<>>})

SpecFaults == InitFaults /\ [][NextFaults]_vars

\* SpecParams: one checker at a time, host 1 and the disk check, over every
\* pair of a default document of the check kind and an override document of
\* the binding; host 1 reports normal or critical metrics.
BothKeys(t, m) == JObject([k \in ParamKeys |-> IF k = "threshold_pct" THEN t ELSE m])
ParamDefaults ==
  {JNull, JObject(NoKeys), Threshold(JNum(DefaultThresholdPct)),
   BothKeys(JNum(DefaultThresholdPct), JNum(DefaultOfflineMinutes)), Threshold(JNested(1))}
ParamOverrides ==
  {JNull, JObject(NoKeys), Threshold(JNum(Val(DemoNormal.disk_pct))),
   BothKeys(Absent, JNum(5)), Threshold(JNested(2))}
Parameterizations ==
  {WithOverride([OneCheck EXCEPT !.alert_types[1].params_json = d], <<1, 1>>, o) :
     d \in ParamDefaults, o \in ParamOverrides}

NextParams ==
  \/ \E m \in {DemoNormal, DemoAlert} : send_metrics(1, m)
  \/ \E a \in 1..Len(alerts) : acknowledge(a)
  \/ Tick
  \/ main_start(1)
  \/ check_step(1)
  \/ write_step(1)

InitParams == InitWith(Parameterizations, {<<>>})

SpecParams == InitParams /\ [][NextParams]_vars

\* SpecOnline: one checker at a time, host 1 and the host-online check with
\* the default threshold or a threshold of zero minutes; host 1's reports
\* carry any collected_at, earlier or later than the time of sending.
OnlineOnly ==
  [Seed EXCEPT !.hosts[2].is_active = FALSE, !.host_alert_checks[<<1, 1>>].bound = FALSE]
OnlineConfigurations ==
  {OnlineOnly, WithOverride(OnlineOnly, <<1, 2>>, BothKeys(Absent, JNum(0)))}

StampedRequest(h, m, wall) ==
  Request(Some(HostKeyOf(h)), None, m, Given(DateTime(wall, None)), {}, None)

NextOnline ==
  \/ \E wall \in 0..MaxNow : report(StampedRequest(1, DemoNormal, wall), "none")
  \/ \E a \in 1..Len(alerts) : acknowledge(a)
  \/ Tick
  \/ main_start(1)
  \/ check_step(1)
  \/ write_step(1)

InitOnline == InitWith(OnlineConfigurations, {<<>>})

SpecOnline == InitOnline /\ [][NextOnline]_vars

\* SpecAdmin: one checker at a time, both hosts bound to the disk check; an
\* operator may switch host 2 or host 1's binding off between passes.
DiskBoth ==
  [Seed EXCEPT !.host_alert_checks[<<1, 2>>].bound = FALSE,
               !.host_alert_checks[<<2, 2>>].bound = FALSE]

NextAdmin ==
  \/ \E m \in {DemoNormal, DemoAlert} : send_metrics(1, m)
  \/ send_metrics(2, DemoAlert)
  \/ \E a \in 1..Len(alerts) : acknowledge(a)
  \/ deactivate_host(2)
  \/ disable_binding(1, 1)
  \/ Tick
  \/ main_start(1)
  \/ check_step(1)
  \/ write_step(1)

InitAdmin == InitWith({DiskBoth}, {<<>>})

SpecAdmin == InitAdmin /\ [][NextAdmin]_vars

\* SpecIngest: the ingestion endpoint alone.  Requests vary a well-formed
\* report of host 1 in its credentials, in one percentage, in collected_at,
\* or in its unknown and extra fields, or have a body that is not JSON, or
\* several defects at once; the database may fail on the well-formed
\* report; host 2 is inactive.
BaseRequest == Request(Some(HostKeyOf(1)), None, DemoNormal, Given(DateTime(0, None)), {}, None)
Credentials == {None} \cup {Some(k) : k \in Keys}
PctValues == {None, Some(-1), Some(0), Some(100), Some(101)}
Offsets == {-1, 0, 1}
CollectedAts ==
  {Omitted, JsonNull}
  \cup {Given(DateTime(w, o)) : w \in 0..MaxNow, o \in {None} \cup {Some(x) : x \in Offsets}}

IngestRequests ==
  {[BaseRequest EXCEPT !.auth = a, !.host_key = k] : a \in Credentials, k \in Credentials}
  \cup {[BaseRequest EXCEPT ![f] = v] : f \in {"cpu_pct", "mem_pct", "disk_pct"}, v \in PctValues}
  \cup {[BaseRequest EXCEPT !.collected_at = t] : t \in CollectedAts}
  \cup {[BaseRequest EXCEPT !.unknown = u, !.extra = e] :
          u \in {{}, {"gpu_temp"}}, e \in {None, Some({"rack"})}}
  \cup {Garbled(a) : a \in Credentials}
  \cup {[BaseRequest EXCEPT !.auth = a, !.host_key = k, !.cpu_pct = v] :
          a \in {None, Some(HostKeyOf(1)), Some(UnregisteredKey)},
          k \in {None, Some(HostKeyOf(2))},
          v \in {Some(15), Some(101)}}

NextIngest ==
  \/ \E req \in IngestRequests : report(req, "none")
  \/ \E fault \in DbFaults : report(BaseRequest, fault)
  \/ Tick

InitIngest == InitWith({OneCheck}, {<<>>})

SpecIngest == InitIngest /\ [][NextIngest]_vars

\* SpecSelect: as Spec, over configurations with disabled bindings, disabled
\* check kinds and inactive hosts.
InitSelect == InitWith(Selections, {<<>>})

SpecSelect == InitSelect /\ [][Next]_vars

(***************************************************************************)
(* C1.  In every state reached from an empty alerts table by reports,      *)
(* manual acknowledgements and passes that do not overlap, each            *)
(* (host, check) pair has at most one alert row with status 'open'.        *)
(***************************************************************************)
C1_AtMostOneOpen ==
  \A h \in HostIds, c \in CheckIds : Cardinality(OpenAlertsOf(h, c)) <= 1

\* Steps of checker p, told from the two states of a step.
CheckStepped(p) ==
  /\ pc[p] = "loop"
  /\ <<pc[p], results[p], printed[p]>>' # <<pc[p], results[p], printed[p]>>
WriteStepped(p) == pc[p] = "write" /\ pc'[p] # "write"

\* The pair's current state is s, whichever row the lookup returns.
CurrentStateIs(h, c, S) == get_last_alert_state(h, c) \subseteq S

NoneAcknowledged(h, c) == \A a \in AlertsOf(h, c) : alerts[a].status # "acknowledged"
Writing(h, c) ==
  \E p \in Runners : pc[p] = "write" /\ cur[p].host_id = h /\ cur[p].check_id = c

(***************************************************************************)
(* C2.  When two passes overlap on the same (host, check), the             *)
(* read-then-write of one excludes that of the other: the two checkers are *)
(* never both between their read of the last state and their write for the *)
(* same pair.                                                              *)
(***************************************************************************)
C2_ReadWriteExclusive ==
  \A p \in Runners, q \in Runners :
    (/\ p # q
     /\ pc[p] = "write"
     /\ pc[q] = "write"
     /\ Head(hostq[p]) = Head(hostq[q]))
    => cur[p].check_id # cur[q].check_id

C5_OpenNotTriggeredResolves ==
  [][\A p \in Runners :
       (/\ WriteStepped(p)
        /\ cur[p].op = "resolve"
        /\ CurrentStateIs(cur[p].host_id, cur[p].check_id, {"open"}))
       => /\ \E a \in OpenAlertsOf(cur[p].host_id, cur[p].check_id) :
               alerts' = [alerts EXCEPT ![a].status = "resolved",
                                        ![a].message = @ \o <<ResolvedMark, cur[p].message>>]
          /\ \A a \in 1..Len(alerts') :
               (alerts'[a].host_id = cur[p].host_id /\ alerts'[a].check_id = cur[p].check_id)
               => alerts'[a].status # "open"
    ]_vars

(***************************************************************************)
(* C6.  For a pair whose most recent alert is 'acknowledged', an           *)
(* evaluation is a no-op whatever the verdict: it neither creates a row    *)
(* nor changes the acknowledged row.                                       *)
(***************************************************************************)
C6_AcknowledgedIsNoOp ==
  [][\A p \in Runners :
       (WriteStepped(p) /\ cur[p].last_state = "acknowledged") => alerts' = alerts
    ]_vars

(***************************************************************************)
(* C7.  Alerts are emitted on state transitions only: for a pair evaluated *)
(* by passes that do not overlap (and never acknowledged), the number of   *)
(* alert rows equals the number of passes whose verdict was triggered      *)
(* while the verdict of the pass before was not.                           *)
(***************************************************************************)
C7_AlertsCountRisingEdges ==
  \A h \in HostIds, c \in CheckIds :
    (NoneAcknowledged(h, c) /\ ~Writing(h, c))
    => Cardinality(AlertsOf(h, c)) = risingEdges[<<h, c>>]

(***************************************************************************)
(* C8.  The demo scenario for a host bound to the disk check (threshold    *)
(* 90, no alert rows): report disk 45, pass -> no alert; report disk 92,   *)
(* pass -> exactly one alert, open, with the disk check's severity; report *)
(* disk 40, pass -> that alert is resolved and there is no other.          *)
(***************************************************************************)
C8_DemoScenario ==
  LET rows == AlertsOf(DemoHost, DemoCheck)
      TheAlert(status) ==
        \E a \in rows :
          /\ rows = {a}
          /\ alerts[a].status = status
          /\ alerts[a].severity = alert_types[DemoCheck].severity
          /\ Head(alerts[a].message) = Msg("disk", "usage critical", DemoHost, 92, DefaultThresholdPct)
  IN /\ demo = 3 => rows = {}
     /\ demo = 6 => TheAlert("open")
     /\ demo = 9 => TheAlert("resolved")

C8_Witness == demo = 9 /\ Len(incoming_data) = 3

(***************************************************************************)
(* C9.  A failure confined to one check (the function raises, or a         *)
(* parameter document of the check kind or of the binding is malformed)    *)
(* skips only that check: when the pass is over, every check of every      *)
(* active host has its entry in the details the pass printed.              *)
(***************************************************************************)
C9_FailureSkipsOnlyThatCheck ==
  \A p \in Runners :
    pc[p] \in {"done", "failed"}
    => \A h \in Range(get_active_hosts) : \A c \in get_host_alert_checks(h) :
         \E i \in 1..Len(printed[p]) :
           /\ printed[p][i].host_id = h
           /\ \E d \in Range(printed[p][i].details) : d.check_id = c

(***************************************************************************)
(* C10.  A check whose function name is not in ALERT_FUNCTIONS gets the    *)
(* detail "Unknown function", is not counted in checks_run, creates or     *)
(* changes no alert row, and the host's other checks are still evaluated.  *)
(***************************************************************************)
C10_UnknownFunctionIsPerCheck ==
  [][\A p \in Runners :
       (CheckStepped(p) /\ cur'[p].kind = "unknown")
       => LET c == cur'[p].check_id
              res == IF Len(printed'[p]) > Len(printed[p])
                     THEN printed'[p][Len(printed[p]) + 1]
                     ELSE results'[p]
          IN /\ alert_types[c].function_name \notin ALERT_FUNCTIONS
             /\ res = [results[p] EXCEPT !.details = Append(@, Detail(c, "Unknown function"))]
             /\ alerts' = alerts
             /\ pc'[p] \in {"loop", "done"}
             /\ todo[p] \ {c} # {} => (pc'[p] = "loop" /\ todo'[p] = todo[p] \ {c})
    ]_vars

\* a pass is over in which one check of a host had an unknown function and
\* the host's other check created an alert
C10_Witness ==
  \E p \in Runners : \E i \in 1..Len(printed[p]) :
    LET r == printed[p][i] IN
    /\ pc[p] = "done"
    /\ r.checks_run = 1 /\ r.alerts_triggered = 1
    /\ \E d \in Range(r.details) : d.tag = "Unknown function"
    /\ \E d \in Range(r.details) : d.tag = "NEW ALERT"

(***************************************************************************)
(* C11.  A pass evaluates a check for a host only if the host is active,   *)
(* the binding is enabled and the check kind is enabled; for every other   *)
(* pair it runs no predicate and no alert row of the pair is created or    *)
(* changed.                                                                *)
(***************************************************************************)
Eligible(h, c) ==
  /\ hosts[h].is_active
  /\ host_alert_checks[<<h, c>>].bound
  /\ host_alert_checks[<<h, c>>].enabled
  /\ alert_types[c].enabled

C11_OnlyEnabledPairsEvaluated ==
  [][/\ \A p \in Runners :
          CheckStepped(p) => Eligible(cur'[p].host_id, cur'[p].check_id)
     /\ \A a \in 1..Len(alerts') :
          ~Eligible(alerts'[a].host_id, alerts'[a].check_id)
          => (a <= Len(alerts) /\ alerts'[a] = alerts[a])
    ]_vars

\* a pass is over that created an alert, and a pair that is bound but
\* switched off has none
C11_Witness ==
  \E p \in Runners : \E h \in HostIds, c \in CheckIds :
    /\ pc[p] = "done" /\ alerts # <<>>
    /\ host_alert_checks[<<h, c>>].bound /\ ~Eligible(h, c)
    /\ AlertsOf(h, c) = {}

(***************************************************************************)
(* C12.  Every check predicate, when the host has no applicable sample     *)
(* data (no sample at all, or the latest sample lacks the field), returns  *)
(* not triggered; so a pass over a host that never reported creates no     *)
(* alert.                                                                  *)
(***************************************************************************)
FieldOf(function_name) ==
  CASE function_name = "check_disk_space" -> "disk_pct"
    [] function_name = "check_memory_usage" -> "mem_pct"
    [] OTHER -> "cpu_pct"

NoApplicableData(h, c) ==
  \/ SamplesOf(h) = {}
  \/ /\ alert_types[c].function_name # "check_host_online"
     /\ \A i \in LatestSamples(h) : IsNull(incoming_data[i][FieldOf(alert_types[c].function_name)])

C12_NoDataIsNotTriggered ==
  [][\A p \in Runners :
       /\ (/\ CheckStepped(p)
           /\ cur'[p].kind = "verdict"
           /\ NoApplicableData(cur'[p].host_id, cur'[p].check_id))
          => ~cur'[p].alert_triggered
       /\ (WriteStepped(p) /\ SamplesOf(cur[p].host_id) = {})
          => alerts' = alerts
    ]_vars

\* A step of POST /report, and the request it handled (request').
ReportStepped ==
  <<request, response>>' # <<request, response>> \/ incoming_data' # incoming_data

PctFields == {"cpu_pct", "mem_pct", "disk_pct"}
OutOfRange(v) == v # None /\ (Val(v) < 0 \/ Val(v) > 100)
InRange(req) == \A f \in PctFields : ~OutOfRange(req[f])
HeaderKeyActive(req) ==
  req.auth # None /\ \E h \in HostIds : HostKeyOf(h) = Val(req.auth) /\ hosts[h].is_active
\* a valid report, authenticated by its header
WellFormed(req) ==
  HeaderKeyActive(req) /\ InRange(req) /\ (req.host_key = None \/ req.host_key = req.auth)
Stored == Len(incoming_data') = Len(incoming_data) + 1
NewSample == incoming_data'[Len(incoming_data')]

(***************************************************************************)
(* C13.  A request without a bearer-style Authorization credential is      *)
(* answered 401 missing_host_key and stores no sample, whatever its body   *)
(* holds (a host_key of an active host included).                          *)
(***************************************************************************)
C13_NoBearerIsRejected ==
  [][(ReportStepped /\ request'.auth = None)
     => (/\ response' = Response(FALSE, 401, "missing_host_key", None)
         /\ incoming_data' = incoming_data)
    ]_vars

(***************************************************************************)
(* C14.  A report (that carries a key) with cpu_pct, mem_pct or disk_pct   *)
(* outside [0,100] is answered 400 validation_error and stores no sample;  *)
(* a report whose percentages are all inside [0,100], 0 and 100 included,  *)
(* is not answered with a validation error, and what is stored is the      *)
(* percentages sent.                                                       *)
(***************************************************************************)
C14_PercentagesValidated ==
  [][(ReportStepped /\ Truthy(get_host_key_from_request(request')))
     => /\ ~InRange(request')
           => (/\ response' = Response(FALSE, 400, "validation_error", None)
               /\ incoming_data' = incoming_data)
        /\ InRange(request') => response'.error # "validation_error"
        /\ (InRange(request') /\ Stored)
           => \A f \in PctFields : NewSample[f] = request'[f]
    ]_vars

\* samples with cpu_pct = 100 and with mem_pct = 0 are stored, and the last
\* report, with 101, was answered 400
C14_Witness ==
  /\ \E i \in 1..Len(incoming_data) : incoming_data[i].cpu_pct = Some(100)
  /\ \E i \in 1..Len(incoming_data) : incoming_data[i].mem_pct = Some(0)
  /\ \E f \in PctFields : request[f] = Some(101)
  /\ response.status = 400

(***************************************************************************)
(* C15.  If the body declares a host_key that differs from the key of the  *)
(* Authorization header, the request is answered 401 host_key_mismatch and *)
(* stores no sample, for every declared value, the empty one included.     *)
(***************************************************************************)
C15_MismatchIsRejected ==
  [][(/\ ReportStepped
      /\ Truthy(request'.auth)
      /\ InRange(request')
      /\ request'.host_key # None
      /\ request'.host_key # request'.auth)
     => (/\ response' = Response(FALSE, 401, "host_key_mismatch", None)
         /\ incoming_data' = incoming_data)
    ]_vars

(***************************************************************************)
(* C16.  An otherwise valid report whose header key matches no active host *)
(* is answered 403 invalid_host_key and stores no sample; the response for *)
(* the key of an inactive host is the response for a key never registered. *)
(***************************************************************************)
NoActiveHost(key) == \A h \in HostIds : HostKeyOf(h) = key => ~hosts[h].is_active

\* req sent with the key k (in the header, and in the body if it declares one)
WithKey(req, k) ==
  [req EXCEPT !.auth = Some(k), !.host_key = IF @ = None THEN None ELSE Some(k)]

C16_UnknownHostIsRejected ==
  /\ [](\A req \in IngestRequests : \A h \in HostIds :
          ~hosts[h].is_active
          => report_outcome(WithKey(req, HostKeyOf(h)), "none").response
             = report_outcome(WithKey(req, UnregisteredKey), "none").response)
  /\ [][(/\ ReportStepped
         /\ request'.json
         /\ Truthy(request'.auth)
         /\ NoActiveHost(Val(request'.auth))
         /\ InRange(request')
         /\ (request'.host_key = None \/ request'.host_key = request'.auth))
        => (/\ response' = Response(FALSE, 403, "invalid_host_key", None)
            /\ incoming_data' = incoming_data
            /\ hosts' = hosts)
       ]_vars

\* the key of the inactive host 2 was refused, after a sample was stored
C16_Witness ==
  /\ request.auth = Some(HostKeyOf(2)) /\ ~hosts[2].is_active
  /\ response.status = 403
  /\ incoming_data # <<>>

(***************************************************************************)
(* C17.  Ingestion success is decided by the sample write alone: whenever  *)
(* the sample is inserted the request is answered 200 with the sample's    *)
(* data_id, also when the last_seen update that follows fails.             *)
(***************************************************************************)
C17_StoredMeansAccepted ==
  [][(ReportStepped /\ Stored)
     => response' = Response(TRUE, 200, "", Some(Len(incoming_data')))
    ]_vars

(***************************************************************************)
(* C18.  A valid, authenticated report that omits collected_at is accepted *)
(* (200) and its sample's collected_at is the server's UTC time at         *)
(* receipt.                                                                *)
(***************************************************************************)
C18_OmittedCollectedAtDefaults ==
  [][(ReportStepped /\ WellFormed(request') /\ request'.collected_at.given = "absent")
     => (/\ response'.status = 200
         /\ Stored
         /\ NewSample.collected_at = now)
    ]_vars

(***************************************************************************)
(* C19.  A collected_at given with a UTC offset is stored as the UTC       *)
(* wall-clock time of the instant it names (so the same instant written    *)
(* with different offsets is stored as the same value), not as the local   *)
(* wall-clock time.                                                        *)
(***************************************************************************)
C19_OffsetNormalizedToUtc ==
  [][(/\ ReportStepped
      /\ Stored
      /\ request'.collected_at.given = "value"
      /\ request'.collected_at.dt.off # None)
     => NewSample.collected_at
        = request'.collected_at.dt.wall - Val(request'.collected_at.dt.off)
    ]_vars

(***************************************************************************)
(* C20.  A valid, authenticated report with fields the schema does not     *)
(* know is accepted, and every such field is kept in the stored sample's   *)
(* extra.                                                                  *)
(***************************************************************************)
C20_UnknownFieldsPreserved ==
  [][(/\ ReportStepped
      /\ WellFormed(request')
      /\ request'.collected_at.given = "value"
      /\ request'.unknown # {})
     => (/\ response'.status = 200
         /\ Stored
         /\ NewSample.extra # None
         /\ request'.unknown \subseteq Val(NewSample.extra))
    ]_vars

(***************************************************************************)
(* C21.  Round trip: whatever the store held, after an accepted report the *)
(* latest sample of its host (a row of maximum collected_at) has the       *)
(* report's fields: the three percentages, the instant collected_at names, *)
(* the extra object and every other field the body carried.                *)
(***************************************************************************)
Accepted == ReportStepped /\ response'.status = 200

\* the instant a date-time names, as a UTC reading
Instant(dt) == IF dt.off = None THEN dt.wall ELSE dt.wall - Val(dt.off)

SameFields(row, req) ==
  /\ \A f \in PctFields : row[f] = req[f]
  /\ req.collected_at.given = "value" => row.collected_at = Instant(req.collected_at.dt)
  /\ req.extra # None => row.extra = req.extra
  /\ req.unknown # {} => (row.extra # None /\ req.unknown \subseteq Val(row.extra))

C21_RoundTrip ==
  [][Accepted
     => \A h \in HostIds :
          HostKeyOf(h) = Val(get_host_key_from_request(request'))
          => \A i \in LatestSamples(h)' : SameFields(incoming_data'[i], request')
    ]_vars

(***************************************************************************)
(* C22.  The sample store is append-only and does not deduplicate: no step *)
(* changes or removes an existing row, and every accepted report appends   *)
(* exactly one row, of the host its key resolves to, whose position is the *)
(* data_id returned; the same report sent twice leaves two rows.           *)
(***************************************************************************)
C22_AppendOnly ==
  [][/\ Len(incoming_data') >= Len(incoming_data)
     /\ SubSeq(incoming_data', 1, Len(incoming_data)) = incoming_data
     /\ Accepted
        => (/\ Stored
            /\ get_host_id_by_key(get_host_key_from_request(request')) = Some(NewSample.host_id)
            /\ response'.data_id = Some(Len(incoming_data')))
    ]_vars

\* the same sample stored twice, under two data_id values
C22_Witness ==
  /\ Len(incoming_data) = 2
  /\ incoming_data[1] = incoming_data[2]
  /\ response = Response(TRUE, 200, "", Some(2))

(***************************************************************************)
(* C23.  Every response of /report, to every request and whatever the      *)
(* database does, is one of: 200 with ok=true and a data_id; 401           *)
(* missing_host_key or host_key_mismatch; 400 invalid_json or              *)
(* validation_error; 403 invalid_host_key; 500 server_error.  A failure    *)
(* has ok=false, one of these error codes and no data_id.                  *)
(***************************************************************************)
Failures ==
  {<<401, "missing_host_key">>, <<401, "host_key_mismatch">>, <<400, "invalid_json">>,
   <<400, "validation_error">>, <<403, "invalid_host_key">>, <<500, "server_error">>}

Structured(resp) ==
  \/ /\ resp.ok /\ resp.status = 200 /\ resp.error = ""
     /\ resp.data_id # None /\ Val(resp.data_id) \in 1..(Len(incoming_data) + 1)
  \/ /\ ~resp.ok /\ <<resp.status, resp.error>> \in Failures
     /\ resp.data_id = None

C23_StructuredResults ==
  /\ response # NoResponse => Structured(response)
  /\ \A req \in IngestRequests : \A fault \in DbFaults :
       Structured(report_outcome(req, fault).response)

\* the database failed on a well-formed report after a sample was stored
C23_Witness ==
  /\ request = BaseRequest
  /\ response = Response(FALSE, 500, "server_error", None)
  /\ incoming_data # <<>>

(***************************************************************************)
(* C24.  The resource checks read the host's sample of greatest            *)
(* collected_at, not the one received last: when a stored report's         *)
(* collected_at is older than that of an existing sample of its host, the  *)
(* outcome of every resource check of that host, and what the next pass    *)
(* would evaluate for each of its checks, is what it was before.           *)
(***************************************************************************)
ResourceChecks == {"check_disk_space", "check_memory_usage", "check_cpu_usage"}

ArrivedLate ==
  /\ ReportStepped
  /\ Stored
  /\ \E i \in SamplesOf(NewSample.host_id) :
       incoming_data[i].collected_at > NewSample.collected_at

C24_LatestByCollectedAt ==
  [][ArrivedLate
     => \A h \in HostIds :
          h = NewSample.host_id
          => /\ \A f \in ResourceChecks :
                  \A params \in {JObject(NoKeys), Threshold(JNum(DefaultThresholdPct))} :
                    CallCheck(f, h, params)' = CallCheck(f, h, params)
             /\ \A c \in CheckIds :
                  Eligible(h, c) => Evaluations(h, c)' = Evaluations(h, c)
    ]_vars

\* a sample with a critical disk value was received after a normal one of
\* later collected_at; the latest sample is the normal one
C24_Witness ==
  /\ Len(incoming_data) = 2
  /\ incoming_data[1].host_id = 1 /\ incoming_data[2].host_id = 1
  /\ incoming_data[2].collected_at < incoming_data[1].collected_at
  /\ incoming_data[1].disk_pct = Some(45)
  /\ incoming_data[2].disk_pct = Some(100)
  /\ LatestSamples(1) = {1}

(***************************************************************************)
(* C28.  /report rejects in a fixed order: no key (401 missing_host_key),  *)
(* body not JSON (400 invalid_json), payload invalid (400                  *)
(* validation_error), body key differs from the key used (401              *)
(* host_key_mismatch), no active host for the key (403 invalid_host_key).  *)
(* A request failing several steps gets the error of the first; a request  *)
(* failing one of the first four gets the same outcome whatever the        *)
(* database does.  The key is the one the handler uses: the header's, or   *)
(* without a header the body's.                                            *)
(***************************************************************************)
KeyUsed(req) ==
  IF req.auth # None THEN req.auth
  ELSE IF req.json THEN req.host_key
  ELSE None

FirstFailure(req) ==
  IF KeyUsed(req) = None \/ Val(KeyUsed(req)) = "" THEN <<401, "missing_host_key">>
  ELSE IF ~req.json THEN <<400, "invalid_json">>
  ELSE IF ~InRange(req) THEN <<400, "validation_error">>
  ELSE IF req.host_key # None /\ Val(req.host_key) # "" /\ req.host_key # KeyUsed(req)
       THEN <<401, "host_key_mismatch">>
  ELSE IF NoActiveHost(Val(KeyUsed(req))) THEN <<403, "invalid_host_key">>
  ELSE <<0, "">>

C28_RejectionOrder ==
  /\ [](\A req \in IngestRequests : \A fault \in DbFaults :
          LET f == FirstFailure(req)
              o == report_outcome(req, fault)
          IN /\ f[1] \in {400, 401}
                => o = Outcome(Response(FALSE, f[1], f[2], None), incoming_data, hosts)
             /\ (f[1] = 403 /\ fault # "connect")
                => o = Outcome(Response(FALSE, f[1], f[2], None), incoming_data, hosts))
  /\ [][(ReportStepped /\ FirstFailure(request')[1] # 0)
        => <<response'.status, response'.error>> = FirstFailure(request')
       ]_vars

\* an unregistered key and an out-of-range percentage: the validation error
C28_Witness ==
  /\ request.auth = Some(UnregisteredKey)
  /\ request.cpu_pct = Some(101)
  /\ response = Response(FALSE, 400, "validation_error", None)

(***************************************************************************)
(* C29.  A request answered 400, 401 or 403 leaves incoming_data and every *)
(* host row as they were.  A request answered 200 adds a sample of the one *)
(* active host its key names and sets that host's last_seen; the other     *)
(* samples and the other hosts' rows are unchanged.  No request touches    *)
(* the alerts or the check configuration.                                  *)
(***************************************************************************)
C29_IngestFrame ==
  [][ReportStepped
     => /\ response'.status \in {400, 401, 403}
           => (incoming_data' = incoming_data /\ hosts' = hosts)
        /\ response'.status = 200
           => \E h \in HostIds :
                /\ hosts[h].is_active
                /\ Some(HostKeyOf(h)) = KeyUsed(request')
                /\ SubSeq(incoming_data', 1, Len(incoming_data)) = incoming_data
                /\ SamplesOf(h)' = SamplesOf(h) \cup {Len(incoming_data')}
                /\ \A g \in HostIds \ {h} : SamplesOf(g)' = SamplesOf(g)
                /\ hosts' = [hosts EXCEPT ![h].last_seen = Some(now)]
        /\ UNCHANGED <<alerts, alert_types, host_alert_checks>>
    ]_vars

\* a request was refused after host 1 had reported and time had passed:
\* the sample and the older last_seen are still there
C29_Witness ==
  /\ response.status = 403
  /\ incoming_data # <<>>
  /\ hosts[1].last_seen # None /\ hosts[1].last_seen # Some(now)
  /\ hosts[2].last_seen = None

(***************************************************************************)
(* C25.  The parameter map a check is evaluated with is the check kind's   *)
(* default map overlaid by the binding's override map key by key: a key of *)
(* the override has the override's value (a nested value whole), any other *)
(* key the default's, and without an override the map is the defaults.     *)
(***************************************************************************)
Overlay(d, o, k) ==
  IF o.kind = "object" /\ o.map[k] # Absent THEN o.map[k]
  ELSE IF d.kind = "object" THEN d.map[k]
  ELSE Absent

C25_ParamsOverlay ==
  [][\A p \in Runners :
       (CheckStepped(p) /\ cur'[p].kind \in {"verdict", "error", "unknown"})
       => LET d == alert_types[cur'[p].check_id].params_json
              o == host_alert_checks[<<cur'[p].host_id, cur'[p].check_id>>].params_json
          IN /\ cur'[p].params.kind = "object"
             /\ \A k \in ParamKeys : cur'[p].params.map[k] = Overlay(d, o, k)
             /\ (o.kind = "null" /\ d.kind = "object") => cur'[p].params = d
    ]_vars

\* the override's threshold replaced the default's, the key only the
\* defaults have was kept
C25_Witness ==
  /\ cur[1].kind = "verdict"
  /\ alert_types[1].params_json = BothKeys(JNum(DefaultThresholdPct), JNum(DefaultOfflineMinutes))
  /\ host_alert_checks[<<1, 1>>].params_json = Threshold(JNum(45))
  /\ cur[1].params = BothKeys(JNum(45), JNum(DefaultOfflineMinutes))

(***************************************************************************)
(* C26.  A resource check (disk, memory, CPU) that finds a percentage in   *)
(* the host's latest sample is triggered exactly when that percentage is   *)
(* greater than or equal to threshold_pct, 90 when the parameters have no  *)
(* threshold_pct: a value equal to the threshold triggers, a smaller one   *)
(* does not.                                                               *)
(***************************************************************************)
ThresholdOf(params) ==
  IF params.map["threshold_pct"] = Absent THEN 90 ELSE params.map["threshold_pct"].n

Thresholds ==
  {JObject(NoKeys)} \cup {Threshold(JNum(n)) : n \in {15, 30, 45}}

OfflineBound(params) ==
  now - SecondsPerMinute *
        (IF params.map["offline_threshold_minutes"] = Absent
         THEN 60 ELSE params.map["offline_threshold_minutes"].n)

OnlineParams(h) == MergeParams(alert_types[2].params_json, host_alert_checks[<<h, 2>>].params_json)

C27_OnlineByCollectedAt ==
  [][/\ \A p \in Runners :
          (/\ CheckStepped(p)
           /\ cur'[p].kind = "verdict"
           /\ alert_types[cur'[p].check_id].function_name = "check_host_online"
           /\ SamplesOf(cur'[p].host_id) # {})
          => (cur'[p].alert_triggered
              <=> \A i \in SamplesOf(cur'[p].host_id) :
                    incoming_data[i].collected_at < OfflineBound(cur'[p].params))
     /\ \A h \in HostIds :
          (/\ Accepted
           /\ NewSample.host_id = h
           /\ NewSample.collected_at < OfflineBound(OnlineParams(h))
           /\ \A o \in check_host_online(h, OnlineParams(h)) : o.triggered)
          => /\ hosts'[h].last_seen = Some(now)
             /\ \A o \in check_host_online(h, OnlineParams(h))' : o.triggered
    ]_vars

\* host 1's last report was accepted this very second, with an older
\* collected_at; the pass finds the host offline
C27_Witness ==
  /\ pc[1] = "write"
  /\ cur[1].kind = "verdict" /\ cur[1].check_id = 2
  /\ cur[1].alert_triggered /\ cur[1].message.text = "offline"
  /\ hosts[1].last_seen = Some(now)

(***************************************************************************)
(* C30.  A step of the evaluation engine changes an alert row only from    *)
(* 'open' to 'resolved': rows that are resolved or acknowledged stay as    *)
(* they are, the one row a step may change and any row it adds belong to   *)
(* the (host, check) being evaluated, and an open alert of an inactive     *)
(* host or of a disabled binding is left open by every pass.               *)
(***************************************************************************)
EngineStepped == runnerVars' # runnerVars

Evaluating(a) ==
  \E p \in Runners :
    /\ WriteStepped(p)
    /\ alerts'[a].host_id = cur[p].host_id
    /\ alerts'[a].check_id = cur[p].check_id

C30_EngineFrame ==
  [][EngineStepped
     => /\ Len(alerts') >= Len(alerts)
        /\ \A a \in 1..Len(alerts) :
             \/ alerts'[a] = alerts[a]
             \/ /\ alerts[a].status = "open"
                /\ alerts'[a].status = "resolved"
                /\ alerts'[a].host_id = alerts[a].host_id
                /\ alerts'[a].check_id = alerts[a].check_id
                /\ alerts'[a].triggered_at = alerts[a].triggered_at
                /\ Evaluating(a)
        /\ Cardinality({a \in 1..Len(alerts) : alerts'[a] # alerts[a]}) <= 1
        /\ \A a \in (Len(alerts) + 1)..Len(alerts') :
             alerts'[a].status = "open" /\ Evaluating(a)
        /\ \A a \in 1..Len(alerts) :
             (alerts[a].status = "open" /\ ~Eligible(alerts[a].host_id, alerts[a].check_id))
             => alerts'[a] = alerts[a]
    ]_vars

\* a pass over host 1 alone has resolved host 1's alert; the open alert of
\* host 2, switched off before the pass, is still open
C30_Witness ==
  /\ pc[1] = "done"
  /\ Len(printed[1]) = 1
  /\ ~hosts[2].is_active
  /\ \E a \in 1..Len(alerts) : alerts[a].host_id = 2 /\ alerts[a].status = "open"
  /\ \E a \in 1..Len(alerts) : alerts[a].host_id = 1 /\ alerts[a].status = "resolved"
====
